---------------------------- MODULE Spec2Model ----------------------------
(***************************************************************************)
(* Model of gpseq_ce/centrality.py: the six metric calculators, the three  *)
(* estimators (est_2p, est_f, est_g), the bin reducer (bin_estimate) and   *)
(* the ranker (rank).                                                      *)
(*                                                                         *)
(* Arithmetic is exact.  A number is a record [t, n, d]: t = "Q" stands    *)
(* for the rational n/d (d > 0, lowest terms) and t = "L" for the natural  *)
(* logarithm of the rational n/d, so that a sum of logarithms is the       *)
(* logarithm of the product.  IEEE rounding is not modelled.  All inputs   *)
(* are positive, so no division by zero and no logarithm of a non-positive *)
(* number occurs.                                                          *)
(***************************************************************************)
EXTENDS Integers, Sequences, FiniteSets, TLC

\* ------------------------------------------------------------------ bounds

\* Largest number of conditions of a bin.
MaxConds == 3
\* Largest condition index a calculator is called with.
MaxCi == 5
\* Largest number of bins of a table passed to bin_estimate.
MaxBins == 2
\* Largest length of the metric list passed to bin_estimate.
MaxMetrics == 3
\* Largest number of rows of an estimate table passed to rank, and largest
\* length of the metric list passed to it.
MaxRankRows == 3
MaxRankMetrics == 2

\* ------------------------------------------------------------- arithmetic

RECURSIVE GCD(_, _)
GCD(a, b) == IF b = 0 THEN a ELSE GCD(b, a % b)

Abs(x) == IF x < 0 THEN -x ELSE x

\* The rational n/d in lowest terms with a positive denominator (d # 0).
Q(n, d) ==
    LET g == GCD(Abs(n), Abs(d))
        s == IF d < 0 THEN -1 ELSE 1
    IN  [t |-> "Q", n |-> (s * n) \div g, d |-> (s * d) \div g]

\* The logarithm of the positive rational n/d.
L(n, d) ==
    LET g == GCD(n, d) IN [t |-> "L", n |-> n \div g, d |-> d \div g]

Zero == Q(0, 1)

\* x + y.  The accumulators of est_f and est_g start at the integer 0, the
\* logarithm of 1.
Add(x, y) ==
    IF x.t = "Q" /\ y.t = "Q" THEN Q(x.n * y.d + y.n * x.d, x.d * y.d)
    ELSE IF x.t = "L" /\ y.t = "L" THEN L(x.n * y.n, x.d * y.d)
    ELSE IF x = Zero THEN y
    ELSE x

\* x - y, x / y and x ^ 2 of rationals.
Sub(x, y) == Q(x.n * y.d - y.n * x.d, x.d * y.d)
Div(x, y) == Q(x.n * y.d, x.d * y.n)
Sqr(x) == Q(x.n * x.n, x.d * x.d)

\* log(x), x a positive rational.
Log(x) == L(x.n, x.d)

\* x <= y of rationals.
Leq(x, y) == x.n * y.d <= y.n * x.d

\* ----------------------------------------------------------------- inputs

\* The values a condition row's fields are drawn from.  A condition row is
\* [sum, count, cond_nreads, mean, std]; mean and std are drawn together.
SumVals == {10, 20}
CountVals == {1, 2}
NreadsVals == {100}
StatVals == {<<2, 1>>, <<1, 2>>}

CondRows ==
    { [sum |-> s, count |-> c, cond_nreads |-> r, mean |-> ms[1], std |-> ms[2]] :
        s \in SumVals, c \in CountVals, r \in NreadsVals, ms \in StatVals }

\* The bin of the worked scenario: sum = [10, 20, 30], count = [1, 1, 1],
\* cond_nreads = [100, 100, 100].
ScenarioRow(s) ==
    [sum |-> s, count |-> 1, cond_nreads |-> 100, mean |-> 2, std |-> 1]
ScenarioBin == <<ScenarioRow(10), ScenarioRow(20), ScenarioRow(30)>>

\* The per-bin tables (st) with n condition rows, indexed 0..n-1 in the code
\* and 1..n here.
BinsOfLen(n) == [1..n -> CondRows]
Bins == UNION { BinsOfLen(n) : n \in 1..MaxConds } \cup {ScenarioBin}

\* st.shape[0]
Shape0(st) == Len(st)

\* ------------------------------------------------------------ calculators

AssertionError == "AssertionError"

\* row = st.iloc[ci, :]
Row(st, ci) == st[ci + 1]

calc_p(st, ci) ==
    IF ~(ci < Shape0(st)) THEN AssertionError
    ELSE LET row == Row(st, ci)
         IN  Div(Q(row.sum, 1), Q(row.cond_nreads * row.count, 1))

\* calc_pc adding only the preceding condition instead of recursing.
calc_pc_two_terms(st, ci) ==
    IF ~(ci < Shape0(st)) THEN AssertionError
    ELSE IF ci = 0 THEN calc_p(st, 0)
    ELSE Add(calc_p(st, ci), calc_p(st, ci - 1))

RECURSIVE calc_pc(_, _)
calc_pc(st, ci) ==
    IF ~(ci < Shape0(st)) THEN AssertionError
    ELSE IF ci = 0 THEN calc_p(st, 0)
    ELSE Add(calc_p(st, ci), calc_pc(st, ci - 1))

\* The slice taken by position, as st.iloc[:ci] is: ci is left out.
IxSlice_positional(st, ci) == { i \in 0..(Shape0(st) - 1) : i < ci }

\* st.ix[:ci, col]: st is indexed by the integers 0..N-1, so the slice is by
\* label and includes ci.
IxSlice(st, ci) == { i \in 0..(Shape0(st) - 1) : i <= ci }

RECURSIVE SumInts(_, _)
SumInts(f, S) ==
    IF S = {} THEN 0
    ELSE LET i == CHOOSE j \in S : TRUE IN f[i] + SumInts(f, S \ {i})

calc_pr(st, ci) ==
    IF ~(ci < Shape0(st)) THEN AssertionError
    ELSE IF ci = 0 THEN calc_p(st, 0)
    ELSE LET sl == IxSlice(st, ci)
             p == SumInts([i \in sl |-> Row(st, i).sum], sl)
             q == SumInts([i \in sl |-> Row(st, i).cond_nreads * Row(st, i).count], sl)
         IN  Div(Q(p, 1), Q(q, 1))

calc_var(st, ci) ==
    IF ~(ci < Shape0(st)) THEN AssertionError
    ELSE Sqr(Q(Row(st, ci).std, 1))

calc_ff(st, ci) ==
    IF ~(ci < Shape0(st)) THEN AssertionError
    ELSE Div(Sqr(Q(Row(st, ci).std, 1)), Q(Row(st, ci).mean, 1))

\* calc_cv without its assertion: the lookup st.ix[ci, "std"] fails instead.
calc_cv_unchecked(st, ci) ==
    IF ~(ci < Shape0(st)) THEN "KeyError"
    ELSE Div(Q(Row(st, ci).std, 1), Q(Row(st, ci).mean, 1))

calc_cv(st, ci) ==
    IF ~(ci < Shape0(st)) THEN AssertionError
    ELSE Div(Q(Row(st, ci).std, 1), Q(Row(st, ci).mean, 1))

\* The functions passed as f1 and f2, by name.
Calculators == {"calc_p", "calc_pc", "calc_pr", "calc_var", "calc_ff", "calc_cv"}
Combiners == {"ratio", "logratio", "diff"}

\* f1(st, ci)
F1(f1, st, ci) ==
    CASE f1 = "calc_p" -> calc_p(st, ci)
      [] f1 = "calc_pc" -> calc_pc(st, ci)
      [] f1 = "calc_pr" -> calc_pr(st, ci)
      [] f1 = "calc_var" -> calc_var(st, ci)
      [] f1 = "calc_ff" -> calc_ff(st, ci)
      [] f1 = "calc_cv" -> calc_cv(st, ci)

\* The lambdas of bin_estimate: x / y, np.log(x / y) and y - x.
F2(f2, x, y) ==
    CASE f2 = "ratio" -> Div(x, y)
      [] f2 = "logratio" -> Log(Div(x, y))
      [] f2 = "diff" -> Sub(y, x)

\* ------------------------------------------------------------- estimators

\* est_2p taking the second condition for the last one.
est_2p_second(st, f1, f2) ==
    LET a == F1(f1, st, 0)
        b == F1(f1, st, 1)
    IN  F2(f2, b, a)

est_2p(st, f1, f2) ==
    LET a == F1(f1, st, 0)
        b == F1(f1, st, Shape0(st) - 1)
    IN  F2(f2, b, a)

\* The loop of est_f from index i on: a is fixed.
RECURSIVE est_f_loop(_, _, _, _, _, _)
est_f_loop(st, f1, f2, i, a, out) ==
    IF i >= Shape0(st) THEN out
    ELSE LET b == F1(f1, st, i)
         IN  est_f_loop(st, f1, f2, i + 1, a, Add(out, F2(f2, b, a)))

\* est_f with its loop started at range(0, N): condition 0 is compared with
\* itself too.
est_f_from_zero(st, f1, f2) == est_f_loop(st, f1, f2, 0, F1(f1, st, 0), Zero)

est_f(st, f1, f2) == est_f_loop(st, f1, f2, 1, F1(f1, st, 0), Zero)

\* The loop of est_g from index i on: a becomes b after each step.
RECURSIVE est_g_loop(_, _, _, _, _, _)
est_g_loop(st, f1, f2, i, a, out) ==
    IF i >= Shape0(st) THEN out
    ELSE LET b == F1(f1, st, i)
         IN  est_g_loop(st, f1, f2, i + 1, b, Add(out, F2(f2, b, a)))

\* est_g without a = b: the reference stays condition 0.
est_g_fixed_ref(st, f1, f2) == est_f_loop(st, f1, f2, 1, F1(f1, st, 0), Zero)

est_g(st, f1, f2) == est_g_loop(st, f1, f2, 1, F1(f1, st, 0), Zero)

Estimators == {"est_2p", "est_f", "est_g"}

Est(e, st, f1, f2) ==
    CASE e = "est_2p" -> est_2p(st, f1, f2)
      [] e = "est_f" -> est_f(st, f1, f2)
      [] e = "est_g" -> est_g(st, f1, f2)

\* ------------------------------------------------- bin_estimate's dispatch

\* The metric names bin_estimate recognises.
KnownMetrics ==
    {"prob_2p", "prob_f", "prob_g", "cor_2p", "cor_f", "cor_g",
     "roc_2p", "roc_f", "roc_g", "var_2p", "var_f",
     "ff_2p", "ff_f", "cv_2p", "cv_f"}

\* The value the if/elif chain of bin_estimate assigns to orow[m], m known.
MetricValue(m, st) ==
    CASE m = "prob_2p" -> est_2p(st, "calc_p", "ratio")
      [] m = "prob_f" -> est_f(st, "calc_p", "ratio")
      [] m = "prob_g" -> est_g(st, "calc_p", "ratio")
      [] m = "cor_2p" -> est_2p(st, "calc_pc", "ratio")
      [] m = "cor_f" -> est_f(st, "calc_pc", "ratio")
      [] m = "cor_g" -> est_g(st, "calc_pc", "ratio")
      [] m = "roc_2p" -> est_2p(st, "calc_pr", "ratio")
      [] m = "roc_f" -> est_f(st, "calc_pr", "ratio")
      [] m = "roc_g" -> est_g(st, "calc_pr", "ratio")
      [] m = "var_2p" -> est_2p(st, "calc_var", "logratio")
      [] m = "var_f" -> est_f(st, "calc_var", "logratio")
      [] m = "ff_2p" -> est_2p(st, "calc_ff", "diff")
      [] m = "ff_f" -> est_f(st, "calc_ff", "diff")
      [] m = "cv_2p" -> est_2p(st, "calc_cv", "diff")
      [] m = "cv_f" -> est_f(st, "calc_cv", "diff")

\* ------------------------------------------------------------------ state

VARIABLES
    st,      \* the bin a calculator or estimator is called on
    st2,     \* a second bin, st with one intermediate condition changed
    res,     \* the last call and what it returned
    df,      \* bin_estimate: the multi-condition table, a sequence of rows
    mlist,   \* bin_estimate, rank: the metric list
    pc,      \* bin_estimate, rank: where the call is
    indexes, \* bin_estimate: list(set(df.index))
    odf,     \* bin_estimate, rank: the rows (columns) collected so far
    ret,     \* bin_estimate, rank: the table returned
    prev,    \* bin_estimate: the table an earlier call on df, mlist returned
    cdf,     \* rank: the estimate table
    chrWide, \* rank: label bins by chromosome
    labels   \* rank: the bins' labels

calcVars == <<st, st2, res>>
binVars == <<df, mlist, pc, indexes, odf, ret, prev>>
rankVars == <<cdf, chrWide, labels>>
vars == <<st, st2, res, df, mlist, pc, indexes, odf, ret, prev, cdf, chrWide, labels>>

NoCall == [op |-> "none"]
None == [columns |-> <<>>, rows |-> <<>>, none |-> TRUE]

\* The variables of bin_estimate and rank while neither is called.
BinIdle ==
    /\ df = <<>> /\ mlist = <<>> /\ pc = "off" /\ indexes = <<>>
    /\ odf = <<>> /\ ret = None /\ prev = None
    /\ cdf = None /\ chrWide = FALSE /\ labels = <<>>

\* The variables of the calculators and estimators while none is called.
CalcIdle ==
    /\ st = <<>> /\ st2 = <<>> /\ res = NoCall

Init ==
    /\ st \in Bins
    /\ st2 = st
    /\ res = NoCall
    /\ BinIdle

\* A call f(st, ci) of one of the six calculators.
CallCalc ==
    \E f \in Calculators, ci \in 0..MaxCi :
        /\ res = NoCall
        /\ res' = [op |-> "calc", f1 |-> f, ci |-> ci, val |-> F1(f, st, ci)]
        /\ UNCHANGED <<st, st2, binVars, rankVars>>

\* A call e(st, f1, f2) of one of the three estimators.
CallEst ==
    \E e \in Estimators, f1 \in Calculators, f2 \in Combiners :
        /\ res = NoCall
        /\ res' = [op |-> e, f1 |-> f1, f2 |-> f2, val |-> Est(e, st, f1, f2)]
        /\ UNCHANGED <<st, st2, binVars, rankVars>>

Next == CallCalc \/ CallEst

Spec == Init /\ [][Next]_vars

\* ------------------------------------- two bins, one intermediate changed

TwoPointMetrics == {"prob_2p", "cor_2p", "roc_2p", "var_2p", "ff_2p", "cv_2p"}

InitTwoPoint ==
    /\ st \in { b \in Bins : Len(b) >= 3 }
    /\ st2 = st
    /\ res = NoCall
    /\ BinIdle

\* The second bin gets other values in one intermediate condition, 1..N-2.
ChangeIntermediate ==
    \E i \in 1..(Shape0(st) - 2), row \in CondRows :
        /\ res = NoCall
        /\ st2 = st
        /\ row # Row(st, i)
        /\ st2' = [st EXCEPT ![i + 1] = row]
        /\ UNCHANGED <<st, res, binVars, rankVars>>

\* The two-point estimate of one metric, as bin_estimate computes it, of
\* both bins.
CallTwoPoint ==
    \E m \in TwoPointMetrics :
        /\ res = NoCall
        /\ res' = [op |-> "two_point", m |-> m,
                   val |-> MetricValue(m, st), val2 |-> MetricValue(m, st2)]
        /\ UNCHANGED <<st, st2, binVars, rankVars>>

NextTwoPoint == ChangeIntermediate \/ CallTwoPoint

SpecTwoPoint == InitTwoPoint /\ [][NextTwoPoint]_vars

\* ------------------------------------------------------------ bin_estimate

\* The sequences over S of length lo..hi.
SeqsOf(S, lo, hi) == UNION { [1..n -> S] : n \in lo..hi }

\* The elements of a sequence.
Range(s) == { s[i] : i \in 1..Len(s) }

\* The bins of the tables bin_estimate is called on: every bin has at least
\* two condition rows (df.loc[i, :] of a single row is not a table).
DfBins ==
    { ScenarioBin,
      << [sum |-> 10, count |-> 1, cond_nreads |-> 100, mean |-> 2, std |-> 1],
         [sum |-> 20, count |-> 2, cond_nreads |-> 100, mean |-> 1, std |-> 2] >> }

\* The rows of bin number b (index label b) with conditions t: the bin's
\* coordinates are those of every one of its rows.
DfRowsOf(b, t) ==
    [ c \in 1..Len(t) |->
        [idx |-> b, chrom |-> "chr1", start |-> 100 * b, end |-> 100 * (b + 1),
         sum |-> t[c].sum, count |-> t[c].count, cond_nreads |-> t[c].cond_nreads,
         mean |-> t[c].mean, std |-> t[c].std] ]

RECURSIVE DfOf(_, _)
DfOf(ts, b) ==
    IF b > Len(ts) THEN <<>> ELSE DfRowsOf(b, ts[b]) \o DfOf(ts, b + 1)

Dfs == { DfOf(ts, 1) : ts \in SeqsOf(DfBins, 1, MaxBins) }

\* A metric name bin_estimate does not recognise.
UnknownMetric == "foo"
MetricNames == KnownMetrics \cup {UnknownMetric}

\* set(df.index)
IndexSet(d) == { d[r].idx : r \in 1..Len(d) }

\* list(S) of a set S: its elements once each, in the set's iteration order,
\* which the language leaves open (for strings it changes with the
\* interpreter's hash seed).
ListsOfSet(S) ==
    { l \in [1..Cardinality(S) -> S] : \A a, b \in 1..Cardinality(S) : l[a] = l[b] => a = b }

\* st = df.loc[i, :]; st.index = range(st.shape[0])
Loc(d, i) == SelectSeq(d, LAMBDA r : r.idx = i)

\* orow[m] = v on a Series: the entry labelled m is overwritten, or appended.
SetItem(orow, m, v) ==
    IF \E j \in 1..Len(orow) : orow[j][1] = m
    THEN [ j \in 1..Len(orow) |-> IF orow[j][1] = m THEN <<m, v>> ELSE orow[j] ]
    ELSE Append(orow, <<m, v>>)

\* The loop over mlist from position j on.
RECURSIVE MetricLoop(_, _, _, _)
MetricLoop(orow, s, ml, j) ==
    IF j > Len(ml) THEN orow
    ELSE IF ml[j] \in KnownMetrics
         THEN MetricLoop(SetItem(orow, ml[j], MetricValue(ml[j], s)), s, ml, j + 1)
         ELSE MetricLoop(orow, s, ml, j + 1)

\* The row of one bin: chrom, start, end of its first condition row, then
\* the requested metrics.
ORow(s, ml) ==
    MetricLoop(<<<<"chrom", s[1].chrom>>, <<"start", s[1].start>>, <<"end", s[1].end>>>>,
               s, ml, 1)

\* columns = ['chrom', 'start', 'end']; columns.extend(mlist); columns[:w]
Columns(ml, w) ==
    LET columns == <<"chrom", "start", "end">> \o ml
    IN  SubSeq(columns, 1, IF w < Len(columns) THEN w ELSE Len(columns))

\* pd.concat(odf, axis = 1).transpose() with the columns renamed and the
\* index reset.
Assembled(rows, ml) ==
    [columns |-> Columns(ml, Len(rows[1])),
     rows |-> [ r \in 1..Len(rows) |-> [ j \in 1..Len(rows[r]) |-> rows[r][j][2] ] ],
     none |-> FALSE]

InitBin ==
    /\ CalcIdle
    /\ df \in Dfs
    /\ mlist \in SeqsOf(MetricNames, 0, MaxMetrics)
    /\ pc = "call"
    /\ indexes = <<>> /\ odf = <<>> /\ ret = None /\ prev = None
    /\ cdf = None /\ chrWide = FALSE /\ labels = <<>>

\* bin_estimate(df, mlist) is called: indexes = list(set(df.index)).
BuildGenerator ==
    /\ pc = "call"
    /\ indexes' \in ListsOfSet(IndexSet(df))
    /\ odf' = <<>>
    /\ pc' = "loop"
    /\ UNCHANGED <<calcVars, df, mlist, ret, prev, rankVars>>

\* One iteration of the loop over the bins.
IterateBin ==
    /\ pc = "loop"
    /\ Len(odf) < Len(indexes)
    /\ LET i == indexes[Len(odf) + 1]
           s == Loc(df, i)
       IN  odf' = Append(odf, ORow(s, mlist))
    /\ UNCHANGED <<calcVars, df, mlist, pc, indexes, ret, prev, rankVars>>

\* The output is assembled and returned.
AssembleOutput ==
    /\ pc = "loop"
    /\ Len(odf) = Len(indexes)
    /\ ret' = Assembled(odf, mlist)
    /\ pc' = "done"
    /\ UNCHANGED <<calcVars, df, mlist, indexes, odf, prev, rankVars>>

\* bin_estimate is run once more on the same table and metric list.
RunAgain ==
    /\ pc = "done"
    /\ prev = None
    /\ prev' = ret
    /\ pc' = "call"
    /\ indexes' = <<>> /\ odf' = <<>> /\ ret' = None
    /\ UNCHANGED <<calcVars, df, mlist, rankVars>>

NextBin == BuildGenerator \/ IterateBin \/ AssembleOutput \/ RunAgain

SpecBin == InitBin /\ [][NextBin]_vars

\* -------------------------------------------------------------------- rank

\* The estimate tables rank is called on: columns chrom, start, end and two
\* metric columns, one row per bin.  The values of prob_2p are drawn freely
\* (equal values occur); those of cv_f fall from bin to bin.
RankColumns == <<"chrom", "start", "end", "prob_2p", "cv_f">>
ProbVals == {Q(1, 1), Q(2, 1)}

CdfRow(r, v) ==
    <<IF r % 2 = 1 THEN "chr1" ELSE "chr2", 100 * r, 100 * (r + 1), v, Q(1 - r, 2)>>

Cdfs ==
    { [columns |-> RankColumns,
       rows |-> [ r \in 1..Len(vs) |-> CdfRow(r, vs[r]) ],
       none |-> FALSE] :
        vs \in SeqsOf(ProbVals, 1, MaxRankRows) }

\* The metric names rank is called with: two are columns of the table, one
\* is not.
RankNames == {"prob_2p", "cv_f", "roc_g"}

\* cdf[m].values
ColumnValues(t, m) ==
    LET c == CHOOSE j \in 1..Len(t.columns) : t.columns[j] = m
    IN  [ r \in 1..Len(t.rows) |-> t.rows[r][c] ]

\* The label of a row: the chromosome, or "%s:%s-%s" of its first three
\* entries.
Label(row, wide) ==
    IF wide THEN row[1]
    ELSE row[1] \o ":" \o ToString(row[2]) \o "-" \o ToString(row[3])

\* np.argsort(-v): the orderings that put the values in descending order.
ArgSortsDescending(v) ==
    { o \in ListsOfSet(1..Len(v)) :
        \A k \in 1..(Len(v) - 1) : Leq(v[o[k + 1]], v[o[k]]) }

\* np.argsort(v): an ordering of the positions that puts the values in
\* ascending order; among equal values the order is left open.
ArgSorts(v) ==
    { o \in ListsOfSet(1..Len(v)) :
        \A k \in 1..(Len(v) - 1) : Leq(v[o[k]], v[o[k + 1]]) }

\* (m for m in mlist if m in cdf.columns)
Gen(ml, t) == SelectSeq(ml, LAMBDA m : m \in Range(t.columns))

InitRank ==
    /\ CalcIdle
    /\ df = <<>> /\ indexes = <<>> /\ prev = None
    /\ cdf \in Cdfs
    /\ mlist \in SeqsOf(RankNames, 0, MaxRankMetrics)
    /\ chrWide \in BOOLEAN
    /\ pc = "rank_call"
    /\ labels = <<>> /\ odf = <<>> /\ ret = None

\* rank(cdf, mlist, chrWide = ...) is called: the labels are built.
BuildLabels ==
    /\ pc = "rank_call"
    /\ labels' = [ r \in 1..Len(cdf.rows) |-> Label(cdf.rows[r], chrWide) ]
    /\ odf' = <<>>
    /\ pc' = "rank_loop"
    /\ UNCHANGED <<calcVars, df, mlist, indexes, ret, prev, cdf, chrWide>>

\* One iteration of the loop over the requested metrics that are columns.
RankMetric ==
    /\ pc = "rank_loop"
    /\ Len(odf) < Len(Gen(mlist, cdf))
    /\ \E o \in ArgSorts(ColumnValues(cdf, Gen(mlist, cdf)[Len(odf) + 1])) :
         odf' = Append(odf, [ k \in 1..Len(o) |-> labels[o[k]] ])
    /\ UNCHANGED <<calcVars, df, mlist, pc, indexes, ret, prev, rankVars>>

\* pd.DataFrame(odf).transpose() with the columns named is returned.
RankReturn ==
    /\ pc = "rank_loop"
    /\ Len(odf) = Len(Gen(mlist, cdf))
    /\ ret' = [columns |-> Gen(mlist, cdf),
               rows |-> IF odf = <<>> THEN <<>>
                        ELSE [ r \in 1..Len(odf[1]) |->
                                 [ c \in 1..Len(odf) |-> odf[c][r] ] ],
               none |-> FALSE]
    /\ pc' = "rank_done"
    /\ UNCHANGED <<calcVars, df, mlist, indexes, odf, prev, rankVars>>

NextRank == BuildLabels \/ RankMetric \/ RankReturn

SpecRank == InitRank /\ [][NextRank]_vars

\* ------------------------------------------------- reference definitions

\* The sum of the numbers f[i], i in lo..hi, taken from the top down.
RECURSIVE SumFromTo(_, _, _)
SumFromTo(f, lo, hi) ==
    IF hi < lo THEN Zero ELSE Add(SumFromTo(f, lo, hi - 1), f[hi])

RECURSIVE IntSumFromTo(_, _, _)
IntSumFromTo(f, lo, hi) ==
    IF hi < lo THEN 0 ELSE IntSumFromTo(f, lo, hi - 1) + f[hi]

\* p(i) = sum[i] / (cond_nreads[i] * count[i])
P(i) == Q(st[i + 1].sum, st[i + 1].cond_nreads * st[i + 1].count)

N == Len(st)

\* ----------------------------------------------------------------- claims

\* C6: est_f returns the sum over i = 1..N-1 of f2(f1(i), f1(0)), the empty
\* sum 0 when N = 1; on the scenario bin with calc_p and the ratio combiner
\* est_f returns 5 and est_2p returns 3.
C6_EstFSumsAgainstFirst ==
    /\ res.op = "est_f" =>
         res.val = SumFromTo([i \in 1..(N - 1) |->
                                F2(res.f2, F1(res.f1, st, i), F1(res.f1, st, 0))],
                             1, N - 1)
    /\ (res.op = "est_f" /\ N = 1) => res.val = Zero
    /\ (st = ScenarioBin /\ res.op \in {"est_f", "est_2p"}
          /\ res.f1 = "calc_p" /\ res.f2 = "ratio") =>
         res.val = (IF res.op = "est_f" THEN Q(5, 1) ELSE Q(3, 1))

C6_Witness ==
    /\ st = ScenarioBin
    /\ res.op = "est_f" /\ res.f1 = "calc_p" /\ res.f2 = "ratio"
    /\ res.val = Q(5, 1)

\* C7: est_g returns the sum over i = 1..N-1 of f2(f1(i), f1(i-1)), the
\* empty sum 0 when N = 1: the reference is the preceding condition.
C7_EstGSumsAgainstPrevious ==
    /\ res.op = "est_g" =>
         res.val = SumFromTo([i \in 1..(N - 1) |->
                                F2(res.f2, F1(res.f1, st, i), F1(res.f1, st, i - 1))],
                             1, N - 1)
    /\ (res.op = "est_g" /\ N = 1) => res.val = Zero

\* est_g on a bin of three conditions where comparing with condition 0
\* throughout would give another result.
C7_Witness ==
    /\ res.op = "est_g" /\ N >= 3
    /\ res.val # SumFromTo([i \in 1..(N - 1) |->
                              F2(res.f2, F1(res.f1, st, i), F1(res.f1, st, 0))],
                           1, N - 1)

\* C8: calc_pc(st, ci) is the sum of calc_p(st, i) for i in 0..ci, for every
\* ci in 0..N-1.
C8_PcIsCumulativeSum ==
    (res.op = "calc" /\ res.f1 = "calc_pc" /\ res.ci < N) =>
        res.val = SumFromTo([i \in 0..res.ci |-> P(i)], 0, res.ci)

C8_Witness ==
    /\ res.op = "calc" /\ res.f1 = "calc_pc"
    /\ N >= 3 /\ res.ci = N - 1
    /\ res.val = SumFromTo([i \in 0..(N - 1) |-> P(i)], 0, N - 1)

\* C9: calc_pr(st, ci) is the sum of `sum` over conditions 0..ci divided by
\* the sum of cond_nreads * count over conditions 0..ci, ci included; for
\* ci = 0 it is calc_p(st, 0).
C9_PrIsRatioOfSums ==
    (res.op = "calc" /\ res.f1 = "calc_pr" /\ res.ci < N) =>
        /\ res.val =
             Q(IntSumFromTo([i \in 0..res.ci |-> st[i + 1].sum], 0, res.ci),
               IntSumFromTo([i \in 0..res.ci |->
                               st[i + 1].cond_nreads * st[i + 1].count], 0, res.ci))
        /\ res.ci = 0 => res.val = P(0)

\* calc_pr at a later condition, where it differs from calc_pc.
C9_Witness ==
    /\ res.op = "calc" /\ res.f1 = "calc_pr"
    /\ res.ci >= 1 /\ res.ci < N
    /\ res.val # SumFromTo([i \in 0..res.ci |-> P(i)], 0, res.ci)

\* C10: each of the six calculators called with ci >= N fails with an
\* assertion error and returns no value.
C10_IndexOutOfRangeAsserts ==
    (res.op = "calc" /\ res.ci >= N) => res.val = AssertionError

\* ci = 5 against a bin with N = 3 conditions.
C10_Witness ==
    /\ res.op = "calc" /\ res.ci = 5 /\ N = 3
    /\ res.val = AssertionError

\* C4 as stated: for each of the six two-point metrics, two bins that differ
\* only in an intermediate condition get the same estimate.
C4_TwoPointIgnoresIntermediate ==
    res.op = "two_point" => res.val = res.val2

\* C4, amended: for prob_2p, var_2p, ff_2p and cv_2p (calc_p, calc_var,
\* calc_ff, calc_cv), two bins with N >= 3 conditions that differ only in an
\* intermediate condition get the same two-point estimate.
C4_TwoPointOfPointwiseMetrics ==
    (res.op = "two_point" /\ res.m \in {"prob_2p", "var_2p", "ff_2p", "cv_2p"}) =>
        res.val = res.val2

\* A two-point estimate of two bins whose intermediate condition differs in
\* the fields the metric reads.
C4_Witness ==
    /\ res.op = "two_point" /\ res.m \in {"prob_2p", "var_2p", "ff_2p", "cv_2p"}
    /\ \E i \in 1..(N - 2) :
         F1(IF res.m = "prob_2p" THEN "calc_p"
            ELSE IF res.m = "var_2p" THEN "calc_var"
            ELSE IF res.m = "ff_2p" THEN "calc_ff" ELSE "calc_cv", st, i)
         # F1(IF res.m = "prob_2p" THEN "calc_p"
              ELSE IF res.m = "var_2p" THEN "calc_var"
              ELSE IF res.m = "ff_2p" THEN "calc_ff" ELSE "calc_cv", st2, i)
    /\ res.val = res.val2

\* The metric calculator, the combiner and the estimator each metric name
\* stands for.
Binding ==
    [ prob_2p |-> <<"est_2p", "calc_p", "ratio">>,
      prob_f |-> <<"est_f", "calc_p", "ratio">>,
      prob_g |-> <<"est_g", "calc_p", "ratio">>,
      cor_2p |-> <<"est_2p", "calc_pc", "ratio">>,
      cor_f |-> <<"est_f", "calc_pc", "ratio">>,
      cor_g |-> <<"est_g", "calc_pc", "ratio">>,
      roc_2p |-> <<"est_2p", "calc_pr", "ratio">>,
      roc_f |-> <<"est_f", "calc_pr", "ratio">>,
      roc_g |-> <<"est_g", "calc_pr", "ratio">>,
      var_2p |-> <<"est_2p", "calc_var", "logratio">>,
      var_f |-> <<"est_f", "calc_var", "logratio">>,
      ff_2p |-> <<"est_2p", "calc_ff", "diff">>,
      ff_f |-> <<"est_f", "calc_ff", "diff">>,
      cv_2p |-> <<"est_2p", "calc_cv", "diff">>,
      cv_f |-> <<"est_f", "calc_cv", "diff">> ]

Expected(m, s) == Est(Binding[m][1], s, Binding[m][2], Binding[m][3])

\* C1: every column of the table bin_estimate returns that is named by a
\* metric m holds, for every bin, the estimate of m under the fixed binding
\* of calculator, combiner and estimator.
C1_ColumnsHoldTheirMetric ==
    pc = "done" =>
        \A j \in 1..Len(ret.columns) :
            ret.columns[j] \in KnownMetrics =>
                \A r \in 1..Len(ret.rows) :
                    ret.rows[r][j] = Expected(ret.columns[j], Loc(df, indexes[r]))

\* C2: when the metric list holds an unrecognised name, at any position,
\* bin_estimate returns a table with no column of that name: its columns are
\* chrom, start, end and exactly the recognised requested names.
C2_UnknownMetricYieldsNoColumn ==
    (pc = "done" /\ UnknownMetric \in Range(mlist)) =>
        /\ ~ret.none
        /\ UnknownMetric \notin Range(ret.columns)
        /\ Range(ret.columns) =
             {"chrom", "start", "end"} \cup (Range(mlist) \cap KnownMetrics)

\* C3: two runs of bin_estimate on the same table and metric list return
\* the bins' rows in the same order.
C3_RowOrderIsDeterministic ==
    (pc = "done" /\ ~prev.none) => ret.rows = prev.rows

\* C5: every column rank returns is for a requested metric that is a column
\* of the estimate table, and is a permutation of the labels of all bins in
\* which the bins' values of that metric are non-decreasing.
C5_RankColumnsAreSortedPermutations ==
    pc = "rank_done" =>
        /\ Range(ret.columns) = Range(mlist) \cap Range(cdf.columns)
        /\ \A c \in 1..Len(ret.columns) :
             LET v == ColumnValues(cdf, ret.columns[c])
             IN  \E o \in ListsOfSet(1..Len(cdf.rows)) :
                   /\ \A k \in 1..Len(o) :
                        ret.rows[k][c] = Label(cdf.rows[o[k]], chrWide)
                   /\ \A k \in 1..(Len(o) - 1) : Leq(v[o[k]], v[o[k + 1]])

\* rank has returned a column for a table of three bins whose values are not
\* in ascending order as given.
C5_Witness ==
    /\ pc = "rank_done" /\ ~chrWide
    /\ Len(cdf.rows) >= 3
    /\ Len(ret.columns) >= 1
    /\ LET v == ColumnValues(cdf, ret.columns[1])
       IN  /\ ~Leq(v[1], v[2])
           /\ ret.rows[1][1] # Label(cdf.rows[1], FALSE)
=============================================================================
